---- MODULE Spec2Model ----
(***************************************************************************)
(* A model of cx-webhooks: the Carerix webhooks client                     *)
(* (carerix-webhooks-client.ts), its demo script and its command line      *)
(* (cli.ts).                                                               *)
(*                                                                         *)
(* Strings are sequences of characters.  A run of characters that the      *)
(* program never inspects one by one (a word such as CX_CLIENT_ID, or a    *)
(* literal part of a template string) is written as one element; every     *)
(* character the program looks at ("-", "=", "#", quotes, blanks, "/",     *)
(* line ends) is an element of its own.                                    *)
(*                                                                         *)
(* Dynamically typed JavaScript values are tagged records [t, v].          *)
(***************************************************************************)
EXTENDS Integers, Sequences, FiniteSets, TLC

\* ------------------------------------------------------------------ bounds
MaxOpts == 3      \* option groups after the command on a command line
MaxItems == 2     \* elements of an array in a response body
MaxCalls == 2     \* client operations a library caller runs in a row
MaxLines == 2     \* lines of an env file
MaxTokens == 5    \* tokens of an argument list handed to parseArgs
MaxHeaders == 2   \* --header values handed to parseHeaders

\* ------------------------------------------------------- JavaScript values
Undefined == [t |-> "undefined"]
Null == [t |-> "null"]
Str(s) == [t |-> "str", v |-> s]
Num(n) == [t |-> "num", v |-> n]
Bool(b) == [t |-> "bool", v |-> b]
Arr(s) == [t |-> "arr", v |-> s]
Obj(f) == [t |-> "obj", v |-> f]

EmptyMap == [k \in {} |-> Undefined]

IsArray(x) == x.t = "arr"

\* ToBoolean: what `if (x)`, `!x` and `||` test
Truthy(x) ==
  CASE x.t = "undefined" -> FALSE
    [] x.t = "null" -> FALSE
    [] x.t = "bool" -> x.v
    [] x.t = "num" -> x.v # 0
    [] x.t = "str" -> x.v # <<>>
    [] OTHER -> TRUE

\* x?.key for the property names the program reads (id, _id, webhookId, uuid,
\* items, access_token, filters, enabled, url, eventType): the property of an
\* object; undefined on null, undefined and every primitive and array, which
\* have no own or inherited property of these names.
Get(x, key) ==
  CASE x.t = "obj" -> IF key \in DOMAIN x.v THEN x.v[key] ELSE Undefined
    [] OTHER -> Undefined

\* a ?? b
Coalesce(a, b) == IF a.t \in {"undefined", "null"} THEN b ELSE a

\* Own enumerable properties copied by a spread {...x}
SpreadProps(x) ==
  CASE x.t = "obj" -> x.v
    [] x.t = "arr" -> [k \in {ToString(i - 1) : i \in DOMAIN x.v} |->
                         x.v[CHOOSE i \in DOMAIN x.v : ToString(i - 1) = k]]
    [] x.t = "str" -> [k \in {ToString(i - 1) : i \in DOMAIN x.v} |->
                         Str(<<x.v[CHOOSE i \in DOMAIN x.v : ToString(i - 1) = k]>>)]
    [] OTHER -> EmptyMap

\* { ...a, ...b } on property maps: b's values win
Merge(a, b) ==
  [k \in DOMAIN a \cup DOMAIN b |-> IF k \in DOMAIN b THEN b[k] ELSE a[k]]

Put(f, k, x) == [j \in DOMAIN f \cup {k} |-> IF j = k THEN x ELSE f[j]]

\* ---------------------------------------------------------------- strings
StartsWith(s, c) == Len(s) > 0 /\ s[1] = c
EndsWith(s, c) == Len(s) > 0 /\ s[Len(s)] = c

\* Mutant: the last occurrence is taken, as lastIndexOf would
IndexOfLast(s, c) ==
  IF \E i \in 1..Len(s) : s[i] = c
  THEN CHOOSE i \in 1..Len(s) : s[i] = c /\ \A j \in (i + 1)..Len(s) : s[j] # c
  ELSE 0

\* s.indexOf(c), 1-based; 0 when absent (JavaScript: -1)
IndexOf(s, c) ==
  IF \E i \in 1..Len(s) : s[i] = c
  THEN CHOOSE i \in 1..Len(s) : s[i] = c /\ \A j \in 1..(i - 1) : s[j] # c
  ELSE 0

WhiteSpace == {" ", "\t", "\r", "\n"}

RECURSIVE TrimStart(_)
TrimStart(s) ==
  IF Len(s) > 0 /\ s[1] \in WhiteSpace THEN TrimStart(Tail(s)) ELSE s

RECURSIVE TrimEnd(_)
TrimEnd(s) ==
  IF Len(s) > 0 /\ s[Len(s)] \in WhiteSpace
  THEN TrimEnd(SubSeq(s, 1, Len(s) - 1)) ELSE s

Trim(s) == TrimEnd(TrimStart(s))

\* s is part of the text msg
Contains(msg, s) ==
  \E i \in 0..(Len(msg) - Len(s)) : SubSeq(msg, i + 1, i + Len(s)) = s

RECURSIVE Flatten(_)
Flatten(ss) == IF ss = <<>> THEN <<>> ELSE Head(ss) \o Flatten(Tail(ss))

SeqsUpTo(S, n) == UNION {[1..k -> S] : k \in 0..n}

\* ------------------------------------------------- cli.ts: parseArgs
T_env == <<"-", "-", "env">>
T_url == <<"-", "-", "url">>
T_event == <<"-", "-", "event">>
T_e == <<"-", "e">>
T_header == <<"-", "-", "header">>
T_H == <<"-", "H">>
T_help == <<"-", "-", "help">>
T_h == <<"-", "h">>

\* Mutant: only the first argument is looked at
IncludesFirst(args, x) == Len(args) > 0 /\ args[1] = x

\* args.includes(x)
Includes(args, x) == \E i \in 1..Len(args) : args[i] = x

\* a.replace(/^--?/, '')
StripDashes(a) ==
  IF Len(a) >= 2 /\ a[1] = "-" /\ a[2] = "-" THEN SubSeq(a, 3, Len(a))
  ELSE IF StartsWith(a, "-") THEN Tail(a)
  ELSE a

\* Mutant: the global phase is an if, not a loop
GlobalScanOnce(args, i, envFile) ==
  IF i <= Len(args) /\ args[i] = T_env /\ i + 1 <= Len(args)
  THEN [i |-> i + 2, envFile |-> Str(args[i + 1])]
  ELSE [i |-> i, envFile |-> envFile]

\* The loop "Global flags before command": the index (1-based) of the first
\* token it leaves, and the env file it captured.
RECURSIVE GlobalScan(_, _, _)
GlobalScan(args, i, envFile) ==
  IF i <= Len(args) /\ args[i] = T_env /\ i + 1 <= Len(args)
  THEN GlobalScan(args, i + 2, Str(args[i + 1]))
  ELSE [i |-> i, envFile |-> envFile]

\* ensureArray(k).push(x)
EnsureArrayPush(flags, k, x) ==
  LET cur == IF k \in DOMAIN flags /\ IsArray(flags[k]) THEN flags[k].v ELSE <<>>
  IN Put(flags, k, Arr(Append(cur, x)))

\* Mutant: the loop steps over the option alone and reads its value again as
\* the next token
RECURSIVE ParseRestRereads(_, _, _, _)
ParseRestRereads(args, i, flags, params) ==
  IF i > Len(args) THEN [flags |-> flags, params |-> params]
  ELSE LET a == args[i]
           more == i + 1 <= Len(args)
       IN IF a = T_env THEN ParseRestRereads(args, i + 1, flags, params)
          ELSE IF a = T_url /\ more
            THEN ParseRestRereads(args, i + 1,
                                  Put(flags, <<"url">>, Str(args[i + 1])), params)
          ELSE IF (a = T_event \/ a = T_e) /\ more
            THEN ParseRestRereads(args, i + 1,
                                  EnsureArrayPush(flags, <<"event">>, args[i + 1]), params)
          ELSE IF (a = T_header \/ a = T_H) /\ more
            THEN ParseRestRereads(args, i + 1,
                                  EnsureArrayPush(flags, <<"header">>, args[i + 1]), params)
          ELSE IF StartsWith(a, "-")
            THEN ParseRestRereads(args, i + 1, Put(flags, StripDashes(a), Bool(TRUE)), params)
          ELSE ParseRestRereads(args, i + 1, flags, Append(params, a))

\* The loop "Remaining tokens belong to the command"
RECURSIVE ParseRest(_, _, _, _)
ParseRest(args, i, flags, params) ==
  IF i > Len(args) THEN [flags |-> flags, params |-> params]
  ELSE LET a == args[i]
           more == i + 1 <= Len(args)
       IN IF a = T_env THEN ParseRest(args, i + 2, flags, params)
          ELSE IF a = T_url /\ more
            THEN ParseRest(args, i + 2, Put(flags, <<"url">>, Str(args[i + 1])), params)
          ELSE IF (a = T_event \/ a = T_e) /\ more
            THEN ParseRest(args, i + 2, EnsureArrayPush(flags, <<"event">>, args[i + 1]), params)
          ELSE IF (a = T_header \/ a = T_H) /\ more
            THEN ParseRest(args, i + 2, EnsureArrayPush(flags, <<"header">>, args[i + 1]), params)
          ELSE IF StartsWith(a, "-")
            THEN ParseRest(args, i + 1, Put(flags, StripDashes(a), Bool(TRUE)), params)
          ELSE ParseRest(args, i + 1, flags, Append(params, a))

parseArgs(argv) ==
  LET args == SubSeq(argv, 3, Len(argv))
      out == [envFile |-> Undefined, command |-> Undefined,
              params |-> <<>>, flags |-> EmptyMap]
  IN IF Len(args) = 0 \/ Includes(args, T_help) \/ Includes(args, T_h) THEN out
     ELSE LET g == GlobalScan(args, 1, Undefined)
              hasCmd == g.i <= Len(args)
              rest == ParseRest(args, IF hasCmd THEN g.i + 1 ELSE g.i, EmptyMap, <<>>)
          IN [envFile |-> g.envFile,
              command |-> IF hasCmd THEN Str(args[g.i]) ELSE Undefined,
              params |-> rest.params,
              flags |-> rest.flags]

\* ------------------------------------------------- cli.ts: parseHeaders
\* A function that may throw yields [ok |-> TRUE, value |-> ...] or
\* [ok |-> FALSE, error |-> the message].
Return(x) == [ok |-> TRUE, value |-> x]
Throw(msg) == [ok |-> FALSE, error |-> msg]

RECURSIVE ParseHeaderLoop(_, _, _)
ParseHeaderLoop(arr, k, out) ==
  IF k > Len(arr) THEN Return(IF Len(out) # 0 THEN Arr(out) ELSE Undefined)
  ELSE LET v == arr[k]
           idx == IndexOf(v, "=")
           name == Trim(SubSeq(v, 1, idx - 1))
           value == Trim(SubSeq(v, idx + 1, Len(v)))
       IN IF idx = 0
            THEN Throw(<<"Invalid --header value: ">> \o v \o <<". Expected key=value.">>)
          ELSE IF name = <<>>
            THEN Throw(<<"Invalid --header value: ">> \o v \o <<". Name is empty.">>)
          ELSE ParseHeaderLoop(arr, k + 1,
                 Append(out, Obj([name |-> Str(name), value |-> Str(value)])))

parseHeaders(values) ==
  IF ~Truthy(values) \/ (values.t = "bool" /\ values.v) THEN Return(Undefined)
  ELSE ParseHeaderLoop(IF IsArray(values) THEN values.v ELSE <<values.v>>, 1, <<>>)

\* ------------------------------- carerix-webhooks-client.ts: configuration
K_AUTH_ENDPOINT == <<"CX_AUTH_ENDPOINT">>
K_CLIENT_ID == <<"CX_CLIENT_ID">>
K_CLIENT_SECRET == <<"CX_CLIENT_SECRET">>
K_APPLICATION_ID == <<"CX_APPLICATION_ID">>
K_SCOPES == <<"CX_SCOPES">>
K_BASE_URL == <<"CX_BASE_URL">>

RequiredKeys == <<K_AUTH_ENDPOINT, K_CLIENT_ID, K_CLIENT_SECRET, K_APPLICATION_ID>>

DefaultBaseUrl == <<"https", ":", "/", "/", "api.carerix.io", "/", "webhooks", "/", "v1">>
DefaultEnvFile == <<".env">>

\* process.env[name] as a JavaScript value
EnvGet(env, name) == IF name \in DOMAIN env THEN Str(env[name]) ELSE Undefined

\* Mutant: only an unset variable is refused, an empty one is taken
requiredEnvUnsetOnly(name, env) ==
  IF name \notin DOMAIN env
  THEN Throw(<<"Missing required environment variable: ">> \o name)
  ELSE Return(env[name])

requiredEnv(name, env) ==
  LET v == EnvGet(env, name)
  IN IF ~Truthy(v) THEN Throw(<<"Missing required environment variable: ">> \o name)
     ELSE Return(v.v)

\* raw.split(/\r?\n/)
RECURSIVE SplitLines(_, _, _)
SplitLines(raw, i, cur) ==
  IF i > Len(raw) THEN <<cur>>
  ELSE IF raw[i] = "\n"
    THEN <<(IF EndsWith(cur, "\r") THEN SubSeq(cur, 1, Len(cur) - 1) ELSE cur)>>
         \o SplitLines(raw, i + 1, <<>>)
  ELSE SplitLines(raw, i + 1, Append(cur, raw[i]))

\* value.slice(1, -1) when the value starts and ends with the same quote
Unquote(value) ==
  IF (StartsWith(value, "\"") /\ EndsWith(value, "\""))
     \/ (StartsWith(value, "'") /\ EndsWith(value, "'"))
  THEN SubSeq(value, 2, Len(value) - 1)
  ELSE value

\* Mutant: a line of the file overrides the variable already set
RECURSIVE LoadLinesOverrides(_, _, _)
LoadLinesOverrides(lines, k, env) ==
  IF k > Len(lines) THEN env
  ELSE LET trimmed == Trim(lines[k])
           idx == IndexOf(trimmed, "=")
           key == Trim(SubSeq(trimmed, 1, idx - 1))
           value == Unquote(Trim(SubSeq(trimmed, idx + 1, Len(trimmed))))
       IN IF trimmed = <<>> \/ StartsWith(trimmed, "#")
            THEN LoadLinesOverrides(lines, k + 1, env)
          ELSE IF idx = 0 THEN LoadLinesOverrides(lines, k + 1, env)
          ELSE LoadLinesOverrides(lines, k + 1, Put(env, key, value))

\* The body of the loop over the lines of the env file
RECURSIVE LoadLines(_, _, _)
LoadLines(lines, k, env) ==
  IF k > Len(lines) THEN env
  ELSE LET trimmed == Trim(lines[k])
           idx == IndexOf(trimmed, "=")
           key == Trim(SubSeq(trimmed, 1, idx - 1))
           value == Unquote(Trim(SubSeq(trimmed, idx + 1, Len(trimmed))))
       IN IF trimmed = <<>> \/ StartsWith(trimmed, "#") THEN LoadLines(lines, k + 1, env)
          ELSE IF idx = 0 THEN LoadLines(lines, k + 1, env)
          ELSE IF key \notin DOMAIN env THEN LoadLines(lines, k + 1, Put(env, key, value))
          ELSE LoadLines(lines, k + 1, env)

\* fs maps the paths of the readable files to their text; readFileSync throws
\* on any other path.
loadEnvFile(filePath, env, fs) ==
  IF filePath \notin DOMAIN fs
  THEN Throw(<<"Failed to load env file at ">> \o filePath
             \o <<": ", "ENOENT: no such file or directory">>)
  ELSE Return(LoadLines(SplitLines(fs[filePath], 1, <<>>), 1, env))

\* baseUrl.replace(/\/$/, '')
StripTrailingSlash(u) == IF EndsWith(u, "/") THEN SubSeq(u, 1, Len(u) - 1) ELSE u

NewClient(config) ==
  [baseUrl |-> StripTrailingSlash(config.baseUrl),
   applicationId |-> config.applicationId,
   oauth |-> config.oauth]

\* fromEnv once the env file is loaded: the required variables are read in
\* order, the first one missing throws. e is process.env.
ClientFromEnv(e) ==
  LET authEndpoint == requiredEnv(K_AUTH_ENDPOINT, e)
      clientID == requiredEnv(K_CLIENT_ID, e)
      clientSecret == requiredEnv(K_CLIENT_SECRET, e)
      applicationId == requiredEnv(K_APPLICATION_ID, e)
      scopes == EnvGet(e, K_SCOPES)
      baseUrl == IF Truthy(EnvGet(e, K_BASE_URL)) THEN e[K_BASE_URL]
                 ELSE DefaultBaseUrl
  IN IF ~authEndpoint.ok THEN [ok |-> FALSE, error |-> authEndpoint.error, env |-> e]
     ELSE IF ~clientID.ok THEN [ok |-> FALSE, error |-> clientID.error, env |-> e]
     ELSE IF ~clientSecret.ok THEN [ok |-> FALSE, error |-> clientSecret.error, env |-> e]
     ELSE IF ~applicationId.ok THEN [ok |-> FALSE, error |-> applicationId.error, env |-> e]
     ELSE [ok |-> TRUE, env |-> e,
           value |-> NewClient([baseUrl |-> baseUrl,
                                applicationId |-> applicationId.value,
                                oauth |-> [authEndpoint |-> authEndpoint.value,
                                           clientID |-> clientID.value,
                                           clientSecret |-> clientSecret.value,
                                           scopes |-> scopes]])]

\* [ok, value | error, env]: env is process.env as fromEnv leaves it
fromEnv(path, env, fs) ==
  LET loaded == IF Truthy(path) THEN loadEnvFile(path.v, env, fs) ELSE Return(env)
  IN IF ~loaded.ok THEN [ok |-> FALSE, error |-> loaded.error, env |-> env]
     ELSE CHOOSE r \in {ClientFromEnv(e) : e \in {loaded.value}} : TRUE

\* ------------------------------ carerix-webhooks-client.ts: normalization
\* Mutant: the result is built from the resolved id alone
normalizeWebhookIdOnly(data) ==
  LET id == Coalesce(Get(data, "id"),
              Coalesce(Get(data, "_id"),
                Coalesce(Get(data, "webhookId"), Get(data, "uuid"))))
  IN Obj([k \in {"id"} |-> id])

normalizeWebhook(data) ==
  LET id == Coalesce(Get(data, "id"),
              Coalesce(Get(data, "_id"),
                Coalesce(Get(data, "webhookId"), Get(data, "uuid"))))
  IN Obj(Merge([k \in {"id"} |-> id], SpreadProps(data)))

\* ------------------------------------ carerix-webhooks-client.ts: requests
\* String(x), as a template literal `${x}` converts x
RECURSIVE ToStr(_)
ToStr(x) ==
  CASE x.t = "str" -> x.v
    [] x.t = "num" -> <<ToString(x.v)>>
    [] x.t = "bool" -> IF x.v THEN <<"true">> ELSE <<"false">>
    [] x.t = "undefined" -> <<"undefined">>
    [] x.t = "null" -> <<"null">>
    [] x.t = "obj" -> <<"[object Object]">>
    [] x.t = "arr" ->
         IF x.v = <<>> THEN <<>>
         ELSE LET h == IF Head(x.v).t \in {"undefined", "null"} THEN <<>>
                       ELSE ToStr(Head(x.v))
              IN IF Len(x.v) = 1 THEN h ELSE h \o <<",">> \o ToStr(Arr(Tail(x.v)))

\* Percent-encoding of the characters a URL component may not hold; every
\* other element stands for unreserved characters and is kept.
PercentCode(c) ==
  CASE c = " " -> "%20" [] c = "/" -> "%2F" [] c = ":" -> "%3A"
    [] c = "=" -> "%3D" [] c = "&" -> "%26" [] c = "+" -> "%2B"
    [] c = "#" -> "%23" [] c = "?" -> "%3F" [] c = "\"" -> "%22"
    [] OTHER -> c

encodeURIComponent(s) == [i \in 1..Len(s) |-> PercentCode(s[i])]

\* application/x-www-form-urlencoded, as URLSearchParams.toString() writes it
FormCode(c) == IF c = " " THEN "+" ELSE IF c = "'" THEN "%27" ELSE PercentCode(c)

RECURSIVE FormEncode(_)
FormEncode(pairs) ==
  IF pairs = <<>> THEN <<>>
  ELSE LET p == Head(pairs)
           one == [i \in 1..Len(p[1]) |-> FormCode(p[1][i])] \o <<"=">>
                  \o [i \in 1..Len(p[2]) |-> FormCode(p[2][i])]
       IN IF Len(pairs) = 1 THEN one ELSE one \o <<"&">> \o FormEncode(Tail(pairs))

\* JSON.stringify then JSON.parse: what the server reads.  Properties whose
\* value is undefined are left out, undefined in an array becomes null.
RECURSIVE Stringify(_)
Stringify(x) ==
  CASE x.t = "obj" ->
         LET keep == {k \in DOMAIN x.v : x.v[k].t # "undefined"}
         IN Obj([k \in keep |-> Stringify(x.v[k])])
    [] x.t = "arr" ->
         Arr([i \in DOMAIN x.v |->
                IF x.v[i].t = "undefined" THEN Null ELSE Stringify(x.v[i])])
    [] OTHER -> x

NoBody == [t |-> "none"]

TokenRequest(client) ==
  LET base == << <<<<"grant_type">>, <<"client_credentials">>>>,
                 <<<<"client_id">>, client.oauth.clientID>>,
                 <<<<"client_secret">>, client.oauth.clientSecret>> >>
      params == IF Truthy(client.oauth.scopes)
                THEN Append(base, <<<<"scope">>, client.oauth.scopes.v>>)
                ELSE base
  IN [kind |-> "token", method |-> "POST", url |-> client.oauth.authEndpoint,
      headers |-> [k \in {"Content-Type"} |-> <<"application/x-www-form-urlencoded">>],
      body |-> Str(FormEncode(params))]

appUrl(client, path) ==
  client.baseUrl \o <<"/", "applications", "/">> \o client.applicationId \o path

\* Mutant: the header is built from the first token issued, as a client that
\* caches its token would build it
AuthHeaderCached(token) == [k \in {"Authorization"} |-> <<"Bearer ", "tok", "1">>]

\* authHeaders' result for a token
AuthHeader(token) == [k \in {"Authorization"} |-> <<"Bearer ">> \o ToStr(token)]

\* The fetch each operation makes once it has its headers
ApiRequest(client, op, arg, headers) ==
  LET idPath == <<"/", "webhooks", "/">> \o encodeURIComponent(ToStr(arg))
  IN CASE op = "createWebhook" ->
            [kind |-> "api", method |-> "POST",
             url |-> appUrl(client, <<"/", "webhooks">>),
             headers |-> Merge(headers,
                               [k \in {"Content-Type"} |-> <<"application/json">>]),
             body |-> Stringify(Obj(Merge([k \in {"_kind"} |-> Str(<<"Webhook">>)],
                                          SpreadProps(arg))))]
       [] op = "listWebhooks" ->
            [kind |-> "api", method |-> "GET",
             url |-> appUrl(client, <<"/", "webhooks">>),
             headers |-> headers, body |-> NoBody]
       [] op = "enableWebhook" ->
            [kind |-> "api", method |-> "POST",
             url |-> appUrl(client, idPath \o <<"/", "enable">>),
             headers |-> headers, body |-> NoBody]
       [] op = "disableWebhook" ->
            [kind |-> "api", method |-> "POST",
             url |-> appUrl(client, idPath \o <<"/", "disable">>),
             headers |-> headers, body |-> NoBody]
       [] op = "deleteWebhook" ->
            [kind |-> "api", method |-> "DELETE",
             url |-> appUrl(client, idPath),
             headers |-> headers, body |-> NoBody]

\* ----------------------------------- carerix-webhooks-client.ts: responses
\* A response is [net |-> "response", status, statusText, text, json]: text is
\* what res.text() settles to and json what res.json() settles to (Return or
\* Throw), of which the program reads one; [net |-> "error", message] is a
\* fetch that rejects.
ResOk(res) == res.status >= 200 /\ res.status <= 299

\* await res.text().catch(() => '')
BodyText(res) == IF res.text.ok THEN res.text.value ELSE <<>>

FailureText(what, res) ==
  <<what, ToString(res.status), " ">> \o res.statusText \o <<" ">> \o BodyText(res)

\* Mutant: the status of the token response is not looked at
getAccessTokenAnyStatus(res) ==
  IF res.net = "error" THEN Throw(res.message)
  ELSE IF ~res.json.ok THEN Throw(res.json.error)
  ELSE IF ~Truthy(Get(res.json.value, "access_token"))
    THEN Throw(<<"No access_token in OAuth response">>)
  ELSE Return(Get(res.json.value, "access_token"))

\* getAccessToken from the point where its fetch settles
getAccessToken(res) ==
  IF res.net = "error" THEN Throw(res.message)
  ELSE IF ~ResOk(res) THEN Throw(FailureText("Failed to fetch access token: ", res))
  ELSE IF ~res.json.ok THEN Throw(res.json.error)
  ELSE IF ~Truthy(Get(res.json.value, "access_token"))
    THEN Throw(<<"No access_token in OAuth response">>)
  ELSE Return(Get(res.json.value, "access_token"))

\* Mutant: every operation reports under the name of one of them
FailureNameCopied(op) == "Enable webhook failed: "

FailureName(op) ==
  CASE op = "createWebhook" -> "Create webhook failed: "
    [] op = "listWebhooks" -> "List webhooks failed: "
    [] op = "enableWebhook" -> "Enable webhook failed: "
    [] op = "disableWebhook" -> "Disable webhook failed: "
    [] op = "deleteWebhook" -> "Delete webhook failed: "

\* Mutant: the items wrapper is not looked into
ListItemsNoWrapper(data) ==
  IF IsArray(data) THEN data.v
  ELSE IF Truthy(data) THEN <<data>>
  ELSE <<>>

\* The items listWebhooks takes from a parsed body
ListItems(data) ==
  IF IsArray(data) THEN data.v
  ELSE IF IsArray(Get(data, "items")) THEN Get(data, "items").v
  ELSE IF Truthy(data) THEN <<data>>
  ELSE <<>>

\* Each operation from the point where its own fetch settles
OperationResult(op, res) ==
  IF res.net = "error" THEN Throw(res.message)
  ELSE IF ~ResOk(res) THEN Throw(FailureText(FailureName(op), res))
  ELSE IF op = "deleteWebhook" THEN Return(Undefined)
  ELSE IF ~res.json.ok THEN Throw(res.json.error)
  ELSE IF op = "listWebhooks"
    THEN Return(Arr([i \in DOMAIN ListItems(res.json.value) |->
                       normalizeWebhook(ListItems(res.json.value)[i])]))
  ELSE Return(normalizeWebhook(res.json.value))

\* ------------------------------------------------------- cli.ts: rendering
Usage ==
  <<"Usage: cx-webhooks [--env <path>] <command> [options]", "\n",
    "\n",
    "Commands:", "\n",
    "  list                                   List all webhooks", "\n",
    "  enable <id>                            Enable a webhook", "\n",
    "  disable <id>                           Disable a webhook", "\n",
    "  delete <id>                            Delete a webhook", "\n",
    "  create --url <url> --event <type> [--event <type> ...] [--header key=value ...]", "\n",
    "                                         Create a webhook (at least 1 --event required)", "\n",
    "\n",
    "Options:", "\n",
    "  --env <path>                           Path to .env file (default: .env)", "\n",
    "  --help                                 Show this help">>

\* (w.filters || []).map((f) => f.eventType).join(', ')
RECURSIVE JoinEvents(_)
JoinEvents(fs) ==
  IF fs = <<>> THEN <<>>
  ELSE LET e == Get(Head(fs), "eventType")
           h == IF e.t \in {"undefined", "null"} THEN <<>> ELSE ToStr(e)
       IN IF Len(fs) = 1 THEN h ELSE h \o <<", ">> \o JoinEvents(Tail(fs))

\* One line of the list command, or the TypeError of a filters value that
\* has no map or holds an element without properties
RenderLine(w) ==
  LET filters == IF Truthy(Get(w, "filters")) THEN Get(w, "filters") ELSE Arr(<<>>)
      en == Get(w, "enabled")
      enabled == IF en.t = "undefined" THEN <<>>
                 ELSE IF Truthy(en) THEN <<"enabled">> ELSE <<"disabled">>
  IN IF ~IsArray(filters) THEN Throw(<<"(w.filters || []).map is not a function">>)
     ELSE IF \E i \in DOMAIN filters.v : filters.v[i].t \in {"undefined", "null"}
       THEN Throw(<<"Cannot read properties of null (reading 'eventType')">>)
     ELSE Return(ToStr(Get(w, "id")) \o <<"  ">> \o enabled \o <<"  ">>
                 \o ToStr(Get(w, "url")) \o <<"  [">> \o JoinEvents(filters.v) \o <<"]">>)

\* The lines the list command prints, and the error that ends it, if any
RECURSIVE RenderList(_, _, _)
RenderList(items, k, lines) ==
  IF k > Len(items) THEN [lines |-> lines, ok |-> TRUE]
  ELSE LET r == RenderLine(items[k])
       IN IF r.ok THEN RenderList(items, k + 1, Append(lines, r.value))
          ELSE [lines |-> lines, ok |-> FALSE, error |-> r.error]

\* ------------------------------------------------------------------- state
VARIABLES
  argv,       \* process.argv
  environ,    \* process.env: the variables set, with their values
  fs,         \* the readable files, with their text
  pc,         \* where main() stands: "start", "fromEnv", "dispatch", "await",
              \* "done"; "lib" when the client is used as a library
  parsed,     \* main's parsed
  client,     \* the CarerixWebhooksClient, NoClient before it is constructed
  call,       \* the client operation last started: its number, name and
              \* argument, where it stands ("token", "api", "returned",
              \* "threw"), what its two fetches settled to, the token it
              \* got and its result
  inflight,   \* the HTTP requests sent and not yet settled
  log,        \* every HTTP request sent so far, in order
  granted,    \* the access tokens the auth endpoint has handed out, in order
  stdout,     \* console.log
  stderr,     \* console.error
  exitCode,   \* process.exitCode
  unit        \* a function called on its own, as a unit test calls it: its
              \* name, its arguments, whether it has returned, and what it
              \* returned or threw; NoUnit while main or a library caller runs

vars == <<argv, environ, fs, pc, parsed, client, call, inflight, log, granted,
          stdout, stderr, exitCode, unit>>

NoClient == [baseUrl |-> <<>>]
NoResponse == [net |-> "none"]
NoCall == [n |-> 0, op |-> "none", arg |-> Undefined, st |-> "none",
           tokenRes |-> NoResponse, token |-> Undefined,
           apiRes |-> NoResponse, result |-> Return(Undefined)]
NoParse == [command |-> Undefined]
NoUnit == [fn |-> "none"]

\* The status the process exits with
ExitStatus == IF exitCode.t = "undefined" THEN 0 ELSE exitCode.v

\* ---------------------------------------- client operations (both callers)
\* Mutant: the operation does not await its headers and sends its own
\* request together with the token request
StartCallNoAwait(op, arg) ==
  LET n == call.n + 1
      r == [n |-> n, req |-> TokenRequest(client)]
      q == [n |-> n, req |-> ApiRequest(client, op, arg, EmptyMap)]
  IN /\ call' = [NoCall EXCEPT !.n = n, !.op = op, !.arg = arg, !.st = "token"]
     /\ inflight' = inflight \cup {r, q}
     /\ log' = log \o <<r, q>>

\* Calling an operation runs it up to its first await: authHeaders calls
\* getAccessToken, which sends the token request.
StartCall(op, arg) ==
  LET n == call.n + 1
      r == [n |-> n, req |-> TokenRequest(client)]
  IN /\ call' = [NoCall EXCEPT !.n = n, !.op = op, !.arg = arg, !.st = "token"]
     /\ inflight' = inflight \cup {r}
     /\ log' = Append(log, r)

\* Mutant: a failed token exchange is swallowed and the operation goes on
\* without a token
TokenSettlesSwallowed(res) ==
  /\ call.st = "token"
  /\ \E r \in inflight :
       /\ r.n = call.n /\ r.req.kind = "token"
       /\ LET t == getAccessToken(res)
              token == IF t.ok THEN t.value ELSE Undefined
              q == [n |-> call.n,
                    req |-> ApiRequest(client, call.op, call.arg, AuthHeader(token))]
          IN /\ call' = [call EXCEPT !.st = "api", !.tokenRes = res, !.token = token]
             /\ granted' = IF t.ok THEN Append(granted, [n |-> call.n, token |-> token])
                           ELSE granted
             /\ stdout' = Append(stdout, ToStr(token))
             /\ inflight' = (inflight \ {r}) \cup {q}
             /\ log' = Append(log, q)
  /\ UNCHANGED <<unit, argv, environ, fs, pc, parsed, client, stderr, exitCode>>

\* The token request settles: getAccessToken and authHeaders finish and, with
\* headers in hand, the operation sends its own request.
TokenSettles(res) ==
  /\ call.st = "token"
  /\ \E r \in inflight :
       /\ r.n = call.n /\ r.req.kind = "token"
       /\ LET t == getAccessToken(res)
              q == [n |-> call.n,
                    req |-> ApiRequest(client, call.op, call.arg, AuthHeader(t.value))]
          IN IF t.ok
             THEN /\ call' = [call EXCEPT !.st = "api", !.tokenRes = res,
                                           !.token = t.value]
                  /\ granted' = Append(granted, [n |-> call.n, token |-> t.value])
                  /\ stdout' = Append(stdout, ToStr(t.value))
                  /\ inflight' = (inflight \ {r}) \cup {q}
                  /\ log' = Append(log, q)
             ELSE /\ call' = [call EXCEPT !.st = "threw", !.tokenRes = res,
                                           !.result = t]
                  /\ inflight' = inflight \ {r}
                  /\ UNCHANGED <<granted, stdout, log>>
  /\ UNCHANGED <<unit, argv, environ, fs, pc, parsed, client, stderr, exitCode>>

\* The operation's own request settles: the operation returns or throws.
ApiSettles(res) ==
  /\ call.st = "api"
  /\ \E r \in inflight :
       /\ r.n = call.n /\ r.req.kind = "api"
       /\ LET o == OperationResult(call.op, res)
          IN call' = [call EXCEPT !.st = IF o.ok THEN "returned" ELSE "threw",
                                  !.apiRes = res, !.result = o]
       /\ inflight' = inflight \ {r}
  /\ UNCHANGED <<unit, argv, environ, fs, pc, parsed, client, log, granted, stdout,
                 stderr, exitCode>>

\* ------------------------------------------------------------ cli.ts: main
C_list == <<"list">>
C_enable == <<"enable">>
C_disable == <<"disable">>
C_delete == <<"delete">>
C_create == <<"create">>

\* Mutant: the usage is printed and the exit code is left alone
UsageExitNoCode ==
  /\ stdout' = Append(stdout, Usage)
  /\ pc' = "done"
  /\ UNCHANGED exitCode

\* printUsage(); process.exitCode = 1
UsageExit ==
  /\ stdout' = Append(stdout, Usage)
  /\ exitCode' = Num(1)
  /\ pc' = "done"

\* console.error(message); process.exitCode = 1
ErrorExit(message) ==
  /\ stderr' = Append(stderr, message)
  /\ exitCode' = Num(1)
  /\ pc' = "done"

Main_parseArgs ==
  /\ pc = "start"
  /\ parsed' = parseArgs(argv)
  /\ IF ~Truthy(parsed'.command)
     THEN UsageExit
     ELSE pc' = "fromEnv" /\ UNCHANGED <<stdout, exitCode>>
  /\ UNCHANGED <<unit, argv, environ, fs, client, call, inflight, log, granted, stderr>>

Main_fromEnv ==
  /\ pc = "fromEnv"
  /\ LET envFile == IF Truthy(parsed.envFile) THEN parsed.envFile ELSE Str(DefaultEnvFile)
         r == fromEnv(envFile, environ, fs)
     IN /\ environ' = r.env
        /\ IF r.ok
           THEN client' = r.value /\ pc' = "dispatch" /\ UNCHANGED <<stderr, exitCode>>
           ELSE ErrorExit(r.error) /\ UNCHANGED client
  /\ UNCHANGED <<unit, argv, fs, parsed, call, inflight, log, granted, stdout>>

\* parsed.params[0]
FirstParam == IF Len(parsed.params) > 0 THEN Str(parsed.params[1]) ELSE Undefined

\* The request the create command builds, or the error it throws
CreateRequest ==
  LET url == IF <<"url">> \in DOMAIN parsed.flags THEN parsed.flags[<<"url">>] ELSE Undefined
      ev == IF <<"event">> \in DOMAIN parsed.flags THEN parsed.flags[<<"event">>] ELSE Undefined
      events == IF Truthy(ev) THEN ev ELSE Arr(<<>>)
      header == IF <<"header">> \in DOMAIN parsed.flags
                THEN parsed.flags[<<"header">>] ELSE Undefined
      headers == parseHeaders(header)
  IN IF ~Truthy(url) THEN Throw(<<"Missing --url.">>)
     ELSE IF ~IsArray(events) \/ Len(events.v) = 0
       THEN Throw(<<"At least one --event is required.">>)
     ELSE IF ~headers.ok THEN headers
     ELSE Return(Obj([url |-> url,
                      filters |-> Arr([i \in DOMAIN events.v |->
                                         Obj([eventType |-> Str(events.v[i])])]),
                      customHeaders |-> headers.value]))

IdCommands == {C_enable, C_disable, C_delete}

IdOperation(cmd) ==
  CASE cmd = C_enable -> "enableWebhook"
    [] cmd = C_disable -> "disableWebhook"
    [] cmd = C_delete -> "deleteWebhook"

\* The switch of main up to its await
Main_dispatch ==
  /\ pc = "dispatch"
  /\ LET cmd == parsed.command.v
     IN CASE cmd = C_list ->
               /\ StartCall("listWebhooks", Undefined)
               /\ pc' = "await" /\ UNCHANGED <<stdout, stderr, exitCode>>
          [] cmd \in IdCommands ->
               IF ~Truthy(FirstParam)
               THEN /\ ErrorExit(<<"Missing <id>. Usage: cx-webhooks ">> \o cmd \o <<" <id>">>)
                    /\ UNCHANGED <<call, inflight, log, stdout>>
               ELSE /\ StartCall(IdOperation(cmd), FirstParam)
                    /\ pc' = "await" /\ UNCHANGED <<stdout, stderr, exitCode>>
          [] cmd = C_create ->
               IF ~CreateRequest.ok
               THEN /\ ErrorExit(CreateRequest.error)
                    /\ UNCHANGED <<call, inflight, log, stdout>>
               ELSE /\ StartCall("createWebhook", CreateRequest.value)
                    /\ pc' = "await" /\ UNCHANGED <<stdout, stderr, exitCode>>
          [] OTHER ->
               UsageExit /\ UNCHANGED <<call, inflight, log, stderr>>
  /\ UNCHANGED <<unit, argv, environ, fs, parsed, client, granted>>

SuccessVerb(op) ==
  CASE op = "enableWebhook" -> "Enabled webhook "
    [] op = "disableWebhook" -> "Disabled webhook "
    [] op = "createWebhook" -> "Created webhook "

\* Mutant: an operation that threw is started once more before the error is
\* reported
Main_resumeRetries ==
  /\ pc = "await"
  /\ call.st \in {"returned", "threw"}
  /\ IF call.st = "threw" /\ call.n < 2
     THEN /\ StartCall(call.op, call.arg)
          /\ UNCHANGED <<pc, stdout, stderr, exitCode>>
     ELSE /\ UNCHANGED <<call, inflight, log>>
          /\ IF call.st = "threw"
             THEN ErrorExit(call.result.error) /\ UNCHANGED stdout
             ELSE CASE call.op = "listWebhooks" ->
                         LET items == call.result.value.v
                             r == RenderList(items, 1, <<>>)
                         IN IF Len(items) = 0
                            THEN /\ stdout' = Append(stdout, <<"No webhooks found.">>)
                                 /\ pc' = "done" /\ UNCHANGED <<stderr, exitCode>>
                            ELSE /\ stdout' = stdout \o r.lines
                                 /\ IF r.ok THEN pc' = "done" /\ UNCHANGED <<stderr, exitCode>>
                                    ELSE ErrorExit(r.error)
                    [] call.op = "deleteWebhook" ->
                         /\ stdout' = Append(stdout, <<"Deleted webhook ">> \o ToStr(call.arg))
                         /\ pc' = "done" /\ UNCHANGED <<stderr, exitCode>>
                    [] OTHER ->
                         /\ stdout' = Append(stdout, <<SuccessVerb(call.op)>>
                                                     \o ToStr(Get(call.result.value, "id")))
                         /\ pc' = "done" /\ UNCHANGED <<stderr, exitCode>>
  /\ UNCHANGED <<unit, argv, environ, fs, parsed, client, granted>>

\* main after its await: the result is printed, or the error is caught
Main_resume ==
  /\ pc = "await"
  /\ call.st \in {"returned", "threw"}
  /\ IF call.st = "threw"
     THEN ErrorExit(call.result.error) /\ UNCHANGED stdout
     ELSE CASE call.op = "listWebhooks" ->
                 LET items == call.result.value.v
                     r == RenderList(items, 1, <<>>)
                 IN IF Len(items) = 0
                    THEN /\ stdout' = Append(stdout, <<"No webhooks found.">>)
                         /\ pc' = "done" /\ UNCHANGED <<stderr, exitCode>>
                    ELSE /\ stdout' = stdout \o r.lines
                         /\ IF r.ok THEN pc' = "done" /\ UNCHANGED <<stderr, exitCode>>
                            ELSE ErrorExit(r.error)
            [] call.op = "deleteWebhook" ->
                 /\ stdout' = Append(stdout, <<"Deleted webhook ">> \o ToStr(call.arg))
                 /\ pc' = "done" /\ UNCHANGED <<stderr, exitCode>>
            [] OTHER ->
                 /\ stdout' = Append(stdout, <<SuccessVerb(call.op)>>
                                             \o ToStr(Get(call.result.value, "id")))
                 /\ pc' = "done" /\ UNCHANGED <<stderr, exitCode>>
  /\ UNCHANGED <<unit, argv, environ, fs, parsed, client, call, inflight, log, granted>>

\* ------------------------------------------- the client used as a library
\* new CarerixWebhooksClient(config)
Lib_new(config) ==
  /\ pc = "lib"
  /\ client = NoClient
  /\ client' = NewClient(config)
  /\ UNCHANGED <<unit, argv, environ, fs, pc, parsed, call, inflight, log, granted,
                 stdout, stderr, exitCode>>

\* await client.<op>(arg), once the operation before it has settled
Lib_call(limit, op, arg) ==
  /\ pc = "lib"
  /\ client # NoClient
  /\ call.st \in {"none", "returned", "threw"}
  /\ call.n < limit
  /\ StartCall(op, arg)
  /\ UNCHANGED <<unit, argv, environ, fs, pc, parsed, client, granted, stdout, stderr,
                 exitCode>>

\* ------------------------------------------- functions called on their own
\* What a call of one function leaves alone
Idle ==
  UNCHANGED <<argv, environ, fs, pc, parsed, client, call, inflight, log, granted,
              stdout, stderr, exitCode>>

\* The call of function fn that is about to be made with these arguments
UnitCall(fn, args) == [fn |-> fn, args |-> args, done |-> FALSE, ret |-> Undefined]

\* CarerixWebhooksClient.normalizeWebhook(data)
Call_normalizeWebhook ==
  /\ unit.fn = "normalizeWebhook"
  /\ ~unit.done
  /\ unit' = [unit EXCEPT !.done = TRUE, !.ret = normalizeWebhook(unit.args[1])]
  /\ Idle

\* parseArgs(argv)
Call_parseArgs ==
  /\ unit.fn = "parseArgs"
  /\ ~unit.done
  /\ unit' = [unit EXCEPT !.done = TRUE, !.ret = parseArgs(unit.args[1])]
  /\ Idle

\* parseHeaders(values)
Call_parseHeaders ==
  /\ unit.fn = "parseHeaders"
  /\ ~unit.done
  /\ unit' = [unit EXCEPT !.done = TRUE, !.ret = parseHeaders(unit.args[1])]
  /\ Idle

\* CarerixWebhooksClient.loadEnvFile(filePath), process.env and the files
\* being what the call finds; it returns process.env as it leaves it
Call_loadEnvFile ==
  /\ unit.fn = "loadEnvFile"
  /\ ~unit.done
  /\ unit' = [unit EXCEPT !.done = TRUE,
                          !.ret = loadEnvFile(unit.args[1], unit.args[2], unit.args[3])]
  /\ Idle

\* ------------------------------------------------------------------ inputs
\* Responses of the two endpoints
NetworkError == [net |-> "error", message |-> <<"fetch failed">>]
NoJson == Throw(<<"Unexpected token < in JSON at position 0">>)
NoText == [ok |-> FALSE]

Response(status, statusText, text, json) ==
  [net |-> "response", status |-> status, statusText |-> statusText,
   text |-> text, json |-> json]

JsonOk(x) == Response(200, <<"OK">>, Return(<<>>), Return(x))

\* The k-th token the auth endpoint issues
Tok(k) == <<"tok", ToString(k)>>

AuthFailures ==
  {NetworkError,
   Response(401, <<"Unauthorized">>, Return(<<"denied">>), NoJson),
   Response(200, <<"OK">>, Return(<<"<html>">>), NoJson),
   JsonOk(Obj(EmptyMap))}

AuthResponses(k) ==
  AuthFailures \cup {JsonOk(Obj([access_token |-> Str(Tok(k))]))}

AuthResponsesAll(k) ==
  AuthResponses(k) \cup
  {Response(500, <<"Internal Server Error">>, NoText, NoJson),
   Response(302, <<"Found">>, Return(<<>>), NoJson),
   Response(204, <<"No Content">>, Return(<<>>), NoJson),
   Response(201, <<"Created">>, Return(<<>>),
            Return(Obj([access_token |-> Str(Tok(k)), expires_in |-> Num(300)]))),
   Response(299, <<>>, Return(<<>>), Return(Obj([access_token |-> Str(Tok(k))]))),
   JsonOk(Obj([access_token |-> Str(<<>>)])),
   JsonOk(Obj([access_token |-> Null])),
   JsonOk(Obj([access_token |-> Num(0)])),
   JsonOk(Obj([access_token |-> Num(7)])),
   JsonOk(Obj([access_token |-> Bool(TRUE)])),
   JsonOk(Obj([token |-> Str(Tok(k))])),
   JsonOk(Null),
   JsonOk(Str(Tok(k))),
   JsonOk(Arr(<<Str(Tok(k))>>))}

U1 == <<"https", ":", "/", "/", "hook.example", "/", "in">>

Hook1 ==
  Obj([id |-> Str(<<"w1">>), url |-> Str(U1), enabled |-> Bool(TRUE),
       filters |-> Arr(<<Obj([eventType |-> Str(<<"cremployee", ":", "created">>)])>>)])
Hook2 == Obj([_id |-> Str(<<"w2">>), uuid |-> Str(<<"u2">>), enabled |-> Bool(FALSE)])
Hook3 == Obj([webhookId |-> Num(3), filters |-> Str(<<"all">>)])
Hook4 == Obj([id |-> Null, _id |-> Str(<<"w4">>), items |-> Num(0)])

ApiFailures ==
  {NetworkError,
   Response(404, <<"Not", " ", "Found">>, Return(<<"no such webhook">>), NoJson),
   Response(500, <<"Internal Server Error">>, NoText, NoJson)}

ApiResponses ==
  ApiFailures \cup
  {Response(204, <<"No Content">>, Return(<<>>), NoJson)} \cup
  {JsonOk(x) : x \in {Null, Arr(<<>>), Arr(<<Hook1, Hook2>>), Hook1, Hook3,
                      Obj([items |-> Arr(<<Hook2>>)])}}

Scalars ==
  {Null, Num(0), Num(5), Str(<<>>), Str(<<"a", "b">>), Bool(TRUE), Bool(FALSE)}

Elements == {Hook1, Hook2, Hook4, Obj(EmptyMap), Null, Num(1)}

Arrays == {Arr(s) : s \in SeqsUpTo(Elements, MaxItems)}

ApiBodies ==
  Scalars \cup Arrays
  \cup {Obj([items |-> a]) : a \in Arrays}
  \cup {Obj([items |-> a, id |-> Str(<<"page">>)]) : a \in {Arr(<<>>), Arr(<<Hook1>>)}}
  \cup {Hook1, Hook2, Hook3, Hook4, Obj(EmptyMap), Obj([items |-> Null]),
        Obj([items |-> Str(<<"a">>)])}

ApiResponsesAll ==
  ApiFailures \cup
  {Response(302, <<"Found">>, Return(<<>>), NoJson),
   Response(204, <<"No Content">>, Return(<<>>), NoJson),
   Response(200, <<"OK">>, Return(<<"<html>">>), NoJson),
   Response(201, <<"Created">>, Return(<<>>), Return(Hook2))} \cup
  {JsonOk(x) : x \in ApiBodies}

\* Parsed JSON objects: each of the four id fields absent, null, 0 or a
\* string of its own, with and without other fields
IdFields == {"id", "_id", "webhookId", "uuid"}
OtherFields == [url |-> Str(U1), enabled |-> Bool(FALSE)]

IdFieldValue(k, kind) ==
  CASE kind = "null" -> Null
    [] kind = "zero" -> Num(0)
    [] kind = "string" -> Str(<<k>>)

WebhookObjects ==
  {Obj(Merge(other, [k \in DOMAIN f |-> IdFieldValue(k, f[k])])) :
     other \in {EmptyMap, OtherFields},
     f \in UNION {[S -> {"null", "zero", "string"}] : S \in SUBSET IdFields}}

\* What res.json() can hand to normalizeWebhook
ParsedBodies == WebhookObjects \cup Scalars \cup {Arr(<<>>), Arr(<<Hook1, Null>>)}

\* Configurations and calls of a library caller
Config1 ==
  [baseUrl |-> DefaultBaseUrl \o <<"/">>,
   applicationId |-> <<"app-1">>,
   oauth |-> [authEndpoint |-> <<"https", ":", "/", "/", "id.example", "/", "token">>,
              clientID |-> <<"cid">>,
              clientSecret |-> <<"s", "&", "c">>,
              scopes |-> Str(<<"urn", ":", "cx", "/", "webhooks", ":", "data", ":", "manage">>)]]
Config2 ==
  [baseUrl |-> <<"http", ":", "/", "/", "localhost">>,
   applicationId |-> <<"app-2">>,
   oauth |-> [authEndpoint |-> <<"http", ":", "/", "/", "localhost", "/", "token">>,
              clientID |-> <<"cid">>,
              clientSecret |-> <<"secret">>,
              scopes |-> Undefined]]

Request1 == Obj([url |-> Str(U1)])
Request2 ==
  Obj([url |-> Str(U1),
       filters |-> Arr(<<Obj([eventType |-> Str(<<"crmatch", ":", "updated">>)])>>),
       customHeaders |-> Undefined])

IdOperations == {"enableWebhook", "disableWebhook", "deleteWebhook"}

Calls ==
  {<<"listWebhooks", Undefined>>, <<"createWebhook", Request1>>}
  \cup {<<op, Str(<<"w1">>)>> : op \in IdOperations}

CallsAll ==
  Calls \cup {<<"createWebhook", Request2>>}
  \cup {<<op, id>> : op \in IdOperations, id \in {Str(<<"a", "/", "b">>), Undefined}}

\* Command lines: an optional command and up to MaxOpts options
Commands == {C_list, C_enable, C_disable, C_delete, C_create, <<"frob">>}

Options ==
  {<<<<"w1">>>>, <<T_url, U1>>, <<T_url>>, <<T_event, <<"crjob", ":", "updated">>>>,
   <<T_header, <<"x", "-", "api", "-", "key", "=", "secret">>>>,
   <<T_header, <<"badtoken">>>>, <<T_help>>, <<T_h>>}

Argv(args) == <<<<"node">>, <<"cli.js">>>> \o args

CommandLines ==
  {Flatten(<<c>> \o os) : c \in {<<>>} \cup {<<x>> : x \in Commands},
                          os \in SeqsUpTo(Options, MaxOpts)}

\* Argument lists token by token: every option parseArgs knows, an option it
\* does not know, and two plain words
T_v == <<"-", "v">>
Tokens == {T_env, T_url, T_event, T_e, T_header, T_H, T_v, <<"a">>, <<"b">>}
HelpTokens == {T_help, T_h, T_env, T_url, <<"a">>}

ArgLists == SeqsUpTo(Tokens, MaxTokens) \cup SeqsUpTo(HelpTokens, MaxTokens)

\* --header values: well formed, with blanks to trim, with a second "=",
\* with an empty value, without "=", with an empty or blank name, empty
HeaderTokens ==
  {<<"x", "-", "api", "-", "key", "=", "secret">>,
   <<" ", "k", " ", "=", " ", "v", " ">>,
   <<"a", "=", "b", "=", "c">>,
   <<"k", "=">>,
   <<"badtoken">>,
   <<"=", "value">>,
   <<" ", "=", "v">>,
   <<>>}

\* What parseHeaders accepts: string[] | string | boolean | undefined
HeaderInputs ==
  {Undefined, Bool(TRUE), Bool(FALSE)}
  \cup {Str(t) : t \in HeaderTokens}
  \cup {Arr(ts) : ts \in SeqsUpTo(HeaderTokens, MaxHeaders)}

FullEnv ==
  [k \in {K_AUTH_ENDPOINT, K_CLIENT_ID, K_CLIENT_SECRET, K_APPLICATION_ID} |->
     CASE k = K_AUTH_ENDPOINT -> <<"https", ":", "/", "/", "id.example", "/", "token">>
       [] k = K_CLIENT_ID -> <<"cid">>
       [] k = K_CLIENT_SECRET -> <<"secret">>
       [] k = K_APPLICATION_ID -> <<"app-1">>]

\* Environments: each required variable unset, empty or set
Environments ==
  UNION {[S -> {<<>>, <<"v">>}] :
           S \in SUBSET {K_AUTH_ENDPOINT, K_CLIENT_ID, K_CLIENT_SECRET, K_APPLICATION_ID}}

EnvLines ==
  {<<"CX_CLIENT_ID", "=", "from-file">>,
   <<" ", "CX_APPLICATION_ID", " ", "=", " ", "\"", "app-9", "\"">>,
   <<"#", " ", "CX_AUTH_ENDPOINT", "=", "x">>,
   <<"CX_BASE_URL", "=", "http", ":", "/", "/", "localhost", "/", "\r">>}

RECURSIVE JoinLines(_)
JoinLines(ls) ==
  IF ls = <<>> THEN <<>>
  ELSE IF Len(ls) = 1 THEN Head(ls)
  ELSE Head(ls) \o <<"\n">> \o JoinLines(Tail(ls))

EnvTexts == {JoinLines(ls) : ls \in SeqsUpTo(EnvLines, MaxLines)}

EnvPath == <<"conf", "/", "dev.env">>

FileSystems ==
  {EmptyMap} \cup {[p \in {path} |-> text] : path \in {DefaultEnvFile, EnvPath},
                                              text \in EnvTexts}

\* Lines of an env file: settings (one key twice, with different values),
\* quoted values, blanks around key and value, a comment, a blank line, a
\* line without "=", a line ending in a carriage return
EnvFileLines ==
  {<<"CX_CLIENT_ID", "=", "from-file">>,
   <<"CX_CLIENT_ID", "=", "second">>,
   <<" ", "CX_APPLICATION_ID", " ", "=", " ", "\"", "app-9", "\"", " ">>,
   <<"CX_SCOPES", "=", "'", "a", "=", "b", "'">>,
   <<"#", " ", "CX_AUTH_ENDPOINT", "=", "x">>,
   <<" ", "\t">>,
   <<"CX_AUTH_ENDPOINT">>,
   <<"CX_BASE_URL", "=", "http", ":", "/", "/", "localhost", "/", "\r">>}

EnvFileTexts == {JoinLines(ls) : ls \in SeqsUpTo(EnvFileLines, MaxLines)}

\* process.env before the file is loaded: empty, or with variables set (one
\* of them to the empty string) that the file sets too
PriorEnvs ==
  {EmptyMap,
   [k \in {K_CLIENT_ID} |-> <<"cid">>],
   [k \in {K_CLIENT_ID, K_SCOPES} |-> <<>>],
   [k \in {K_APPLICATION_ID, K_BASE_URL, K_AUTH_ENDPOINT} |-> <<"set">>]}

\* ---------------------------------------------------------- specifications
InitCommon ==
  /\ parsed = NoParse
  /\ client = NoClient
  /\ call = NoCall
  /\ inflight = {}
  /\ log = <<>>
  /\ granted = <<>>
  /\ stdout = <<>>
  /\ stderr = <<>>
  /\ exitCode = Undefined
  /\ unit = NoUnit

\* The command line varies, the configuration is complete
InitArgs ==
  /\ pc = "start"
  /\ argv \in {Argv(a) : a \in CommandLines}
  /\ environ = FullEnv
  /\ fs = [p \in {DefaultEnvFile} |-> <<>>]
  /\ InitCommon

\* The configuration varies, the command line is a valid one
InitEnv ==
  /\ pc = "start"
  /\ argv \in {Argv(<<C_list>>), Argv(<<T_env, EnvPath, C_enable, <<"w1">>>>)}
  /\ environ \in Environments
  /\ fs \in FileSystems
  /\ InitCommon

Init == InitArgs \/ InitEnv

Next ==
  \/ Main_parseArgs
  \/ Main_fromEnv
  \/ Main_dispatch
  \/ \E res \in AuthResponses(Len(granted) + 1) : TokenSettles(res)
  \/ \E res \in ApiResponses : ApiSettles(res)
  \/ Main_resume

Spec == Init /\ [][Next]_vars

\* main runs on: it takes its synchronous steps, every request that is
\* outstanding is answered or fails, and main resumes once the operation it
\* awaits has settled.  main is one sequential thread, so at most one of
\* these steps is possible at a time.
Fairness == WF_vars(Next)

\* Command lines of every kind: no command, help, an unknown command, each
\* command with what it needs and without, an option left without a value
FairCommandLines ==
  {<<>>,
   <<T_help>>,
   <<C_list, T_h>>,
   <<<<"frob">>>>,
   <<C_list>>,
   <<T_env, EnvPath, C_list>>,
   <<C_enable, <<"w1">>>>,
   <<C_enable>>,
   <<C_disable, <<"w1">>>>,
   <<C_delete, <<"w1">>>>,
   <<C_delete, T_env>>,
   <<C_create, T_url, U1, T_event, <<"crjob", ":", "updated">>>>,
   <<C_create, T_url, U1, T_e, <<"crjob", ":", "updated">>,
     T_header, <<"x", "-", "api", "-", "key", "=", "secret">>>>,
   <<C_create, T_url, U1, T_event, <<"crjob", ":", "updated">>, T_header, <<"badtoken">>>>,
   <<C_create, T_url, U1>>,
   <<C_create, T_event, <<"crjob", ":", "updated">>>>,
   <<C_create, T_event, <<"crjob", ":", "updated">>, T_url>>}

\* Each command line under a complete configuration, with and without the
\* default env file, and under one that lacks CX_CLIENT_ID or everything while
\* the default or the named env file supplies CX_CLIENT_ID
InitFair ==
  /\ pc = "start"
  /\ argv \in {Argv(a) : a \in FairCommandLines}
  /\ \/ /\ environ = FullEnv
        /\ fs \in {[p \in {DefaultEnvFile} |-> <<>>], EmptyMap}
     \/ /\ environ \in {EmptyMap,
                        [k \in {K_AUTH_ENDPOINT, K_CLIENT_SECRET, K_APPLICATION_ID} |-> <<"v">>]}
        /\ fs \in {[p \in {path} |-> <<"CX_CLIENT_ID", "=", "cid">>] :
                     path \in {DefaultEnvFile, EnvPath}}
  /\ InitCommon

SpecFair == InitFair /\ [][Next]_vars /\ Fairness

InitLib ==
  /\ pc = "lib"
  /\ argv = <<>>
  /\ environ = EmptyMap
  /\ fs = EmptyMap
  /\ InitCommon

\* A library caller running up to MaxCalls operations one after the other
NextClient ==
  \/ Lib_new(Config1)
  \/ \E c \in Calls : Lib_call(MaxCalls, c[1], c[2])
  \/ \E res \in AuthResponses(Len(granted) + 1) : TokenSettles(res)
  \/ \E res \in ApiResponses : ApiSettles(res)

SpecClient == InitLib /\ [][NextClient]_vars

\* One operation against every kind of response
NextBodies ==
  \/ \E config \in {Config1, Config2} : Lib_new(config)
  \/ \E c \in CallsAll : Lib_call(1, c[1], c[2])
  \/ \E res \in AuthResponsesAll(Len(granted) + 1) : TokenSettles(res)
  \/ \E res \in ApiResponsesAll : ApiSettles(res)

SpecBodies == InitLib /\ [][NextBodies]_vars

\* A function called on its own: every variable of main is at rest
InitUnit ==
  /\ pc = "unit"
  /\ argv = <<>>
  /\ environ = EmptyMap
  /\ fs = EmptyMap
  /\ parsed = NoParse
  /\ client = NoClient
  /\ call = NoCall
  /\ inflight = {}
  /\ log = <<>>
  /\ granted = <<>>
  /\ stdout = <<>>
  /\ stderr = <<>>
  /\ exitCode = Undefined

\* normalizeWebhook on every parsed body
InitNormalize ==
  /\ InitUnit
  /\ unit \in {UnitCall("normalizeWebhook", <<data>>) : data \in ParsedBodies}

SpecNormalize == InitNormalize /\ [][Call_normalizeWebhook]_vars

\* parseArgs on every argument list
InitParseArgs ==
  /\ InitUnit
  /\ unit \in {UnitCall("parseArgs", <<Argv(a)>>) : a \in ArgLists}

SpecParseArgs == InitParseArgs /\ [][Call_parseArgs]_vars

\* parseHeaders on every value of its parameter type
InitParseHeaders ==
  /\ InitUnit
  /\ unit \in {UnitCall("parseHeaders", <<values>>) : values \in HeaderInputs}

SpecParseHeaders == InitParseHeaders /\ [][Call_parseHeaders]_vars

\* loadEnvFile on every env file and prior environment, and on a path
\* without a file
InitLoadEnvFile ==
  /\ InitUnit
  /\ unit \in {UnitCall("loadEnvFile", <<EnvPath, env, files>>) :
                 env \in PriorEnvs,
                 files \in {EmptyMap} \cup {[p \in {EnvPath} |-> text] : text \in EnvFileTexts}}

SpecLoadEnvFile == InitLoadEnvFile /\ [][Call_loadEnvFile]_vars

\* ------------------------------------------------------------- the claims
\* The positions in the log of the requests of operation number n
TokenReqs(n) == {i \in DOMAIN log : log[i].n = n /\ log[i].req.kind = "token"}
ApiReqs(n) == {i \in DOMAIN log : log[i].n = n /\ log[i].req.kind = "api"}

\* The tokens handed to operation number n
GrantedTo(n) == {granted[i].token : i \in {j \in DOMAIN granted : granted[j].n = n}}

Bearer(token) == <<"Bearer ">> \o ToStr(token)

\* C1: every operation sends exactly one token request; its own request is
\* sent only after that token request has settled, carries the token that
\* request was answered with, and carries no token handed to another
\* operation.
C1_FreshTokenPerOperation ==
  \A n \in 1..call.n :
    /\ Cardinality(TokenReqs(n)) = 1
    /\ Cardinality(ApiReqs(n)) <= 1
    /\ \A j \in ApiReqs(n) :
         /\ \A i \in TokenReqs(n) : i < j /\ log[i] \notin inflight
         /\ \E t \in GrantedTo(n) : log[j].req.headers["Authorization"] = Bearer(t)
         /\ \A m \in 1..call.n :
              m # n => \A t \in GrantedTo(m) :
                         log[j].req.headers["Authorization"] # Bearer(t)

\* Two operations in a row have each sent their own request
C1_Witness ==
  call.n = 2 /\ ApiReqs(1) # {} /\ ApiReqs(2) # {}

\* The token request of operation n has settled without a token
TokenFailed(n) ==
  /\ TokenReqs(n) # {}
  /\ \A i \in TokenReqs(n) : log[i] \notin inflight
  /\ GrantedTo(n) = {}

\* C2: when the token exchange of an operation fails, the operation throws
\* the very error getAccessToken threw, and no request to the webhook API is
\* ever sent for it.
C2_TokenFailurePropagates ==
  /\ \A n \in 1..call.n : TokenFailed(n) => ApiReqs(n) = {}
  /\ TokenFailed(call.n) =>
       /\ call.st = "threw"
       /\ call.result = getAccessToken(call.tokenRes)
       /\ \A i \in DOMAIN log :
            log[i].n = call.n => ~Contains(log[i].req.url, <<"/", "webhooks">>)

\* The token exchange of the second operation has failed
C2_Witness ==
  call.n = 2 /\ TokenFailed(2) /\ call.st = "threw" /\ ApiReqs(1) # {}

\* C3 as stated: the token exchange succeeds exactly on a 2xx response whose
\* JSON body has a non-empty string access_token, and every other response
\* fails with an error that carries the status and the status text.
C3_Original ==
  call.tokenRes.net = "response" =>
    LET res == call.tokenRes
        good == /\ ResOk(res)
                /\ res.json.ok
                /\ Get(res.json.value, "access_token").t = "str"
                /\ Get(res.json.value, "access_token").v # <<>>
        succeeded == GrantedTo(call.n) # {}
    IN /\ succeeded <=> good
       /\ ~succeeded =>
            /\ call.st = "threw"
            /\ Contains(call.result.error,
                        <<ToString(res.status), " ">> \o res.statusText)

\* C3 as amended: the token exchange succeeds exactly on a 2xx response whose
\* JSON body has a truthy access_token (of any type), which becomes the
\* token.  A rejected fetch fails with its own error; a non-2xx response
\* with an error carrying the status, the status text and the body text; a
\* 2xx body that is not JSON with the parse error; a body without a truthy
\* access_token with "No access_token in OAuth response".  The last two carry
\* no status.
C3_TokenOutcome ==
  call.tokenRes.net # "none" =>
    LET res == call.tokenRes
        succeeded == GrantedTo(call.n) # {}
        failedWith(e) == ~succeeded /\ call.st = "threw" /\ call.result = Throw(e)
    IN CASE res.net = "error" -> failedWith(res.message)
         [] res.net = "response" /\ (res.status < 200 \/ res.status > 299) ->
              failedWith(<<"Failed to fetch access token: ", ToString(res.status), " ">>
                         \o res.statusText \o <<" ">>
                         \o (IF res.text.ok THEN res.text.value ELSE <<>>))
         [] OTHER ->
              IF ~res.json.ok THEN failedWith(res.json.error)
              ELSE IF ~Truthy(Get(res.json.value, "access_token"))
                THEN failedWith(<<"No access_token in OAuth response">>)
              ELSE /\ GrantedTo(call.n) = {Get(res.json.value, "access_token")}
                   /\ call.token = Get(res.json.value, "access_token")

\* A 2xx response with a numeric access_token has been taken as a token
C3_Witness ==
  /\ call.tokenRes.net = "response"
  /\ call.tokenRes.json.ok
  /\ Get(call.tokenRes.json.value, "access_token") = Num(7)
  /\ call.token = Num(7)
  /\ ApiReqs(call.n) # {}

C4_Label ==
  [createWebhook |-> "Create webhook failed: ",
   listWebhooks |-> "List webhooks failed: ",
   enableWebhook |-> "Enable webhook failed: ",
   disableWebhook |-> "Disable webhook failed: ",
   deleteWebhook |-> "Delete webhook failed: "]

\* C4: an operation whose own request is answered with a status outside
\* 200..299 throws an error that starts with the operation's name and holds
\* the status code and the status text; it has no result and has sent that
\* one request only.
C4_RequestError ==
  (call.apiRes.net = "response"
   /\ (call.apiRes.status < 200 \/ call.apiRes.status > 299)) =>
    /\ call.st = "threw"
    /\ ~call.result.ok
    /\ Head(call.result.error) = C4_Label[call.op]
    /\ Contains(call.result.error,
                <<ToString(call.apiRes.status), " ">> \o call.apiRes.statusText)
    /\ Cardinality(ApiReqs(call.n)) = 1
    /\ Cardinality(TokenReqs(call.n)) = 1
    /\ inflight = {}

\* A delete has been answered with 404
C4_Witness ==
  /\ call.op = "deleteWebhook"
  /\ call.apiRes.net = "response"
  /\ call.apiRes.status = 404
  /\ call.st = "threw"

\* C5: one invocation of the command line has at most one HTTP request
\* outstanding, starts at most one operation, and sends at most a token
\* request followed, once that has settled, by one request to the API.
C5_OneRequestAtATime ==
  /\ Cardinality(inflight) <= 1
  /\ call.n <= 1
  /\ Len(log) <= 2
  /\ Len(log) >= 1 => log[1].req.kind = "token"
  /\ Len(log) = 2 => log[2].req.kind = "api" /\ log[1] \notin inflight

\* A command has run to its end after both requests
C5_Witness ==
  pc = "done" /\ Len(log) = 2 /\ inflight = {}

\* The command line without the program and the script
CliArgs == SubSeq(argv, 3, Len(argv))

HasFlag(name) == Truthy(parsed.command) /\ name \in DOMAIN parsed.flags

\* What the command line lacks for its command
C6_Malformed ==
  /\ pc # "start"
  /\ Truthy(parsed.command)
  /\ \/ /\ parsed.command.v \in IdCommands
        /\ (parsed.params = <<>> \/ parsed.params[1] = <<>>)
     \/ /\ parsed.command.v = C_create
        /\ \/ ~(/\ HasFlag(<<"url">>)
                /\ parsed.flags[<<"url">>].t = "str"
                /\ parsed.flags[<<"url">>].v # <<>>)
           \/ ~(/\ HasFlag(<<"event">>)
                /\ parsed.flags[<<"event">>].t = "arr"
                /\ parsed.flags[<<"event">>].v # <<>>)
           \/ /\ HasFlag(<<"header">>)
              /\ parsed.flags[<<"header">>].t = "arr"
              /\ \E i \in DOMAIN parsed.flags[<<"header">>].v :
                   LET h == parsed.flags[<<"header">>].v[i]
                   IN IndexOf(h, "=") = 0
                      \/ Trim(SubSeq(h, 1, IndexOf(h, "=") - 1)) = <<>>

C6_ValidationMessages ==
  {"Missing --url.", "At least one --event is required.",
   "Invalid --header value: ", "Missing <id>. Usage: cx-webhooks "}

\* C6: a command line that lacks a --url value or an --event value for
\* create, holds a malformed --header token, or lacks the <id> of enable,
\* disable or delete, ends with a validation error and without any HTTP
\* request.
C6_ValidationBeforeNetwork ==
  C6_Malformed =>
    /\ log = <<>>
    /\ pc \in {"fromEnv", "dispatch", "done"}
    /\ (pc = "done" /\ client # NoClient) =>
         /\ Len(stderr) = 1
         /\ Head(stderr[1]) \in C6_ValidationMessages
         /\ ExitStatus # 0

KnownCommands == {C_list, C_enable, C_disable, C_delete, C_create}

\* C7: when main has ended, the exit status is 0 exactly when the operation
\* of the command returned and its result was printed without an error; it
\* is not 0 when an error was reported, when the operation threw, when the
\* command is missing or unknown, and whenever --help or -h is among the
\* arguments.
C7_ExitStatus ==
  /\ pc # "done" => ExitStatus = 0
  /\ pc = "done" =>
       /\ ExitStatus = 0 <=> (call.st = "returned" /\ stderr = <<>>)
       /\ (stderr # <<>> \/ call.st = "threw") => ExitStatus # 0
       /\ (~Truthy(parsed.command) \/ parsed.command.v \notin KnownCommands) =>
            ExitStatus # 0
       /\ (CliArgs = <<>> \/ Includes(CliArgs, T_help) \/ Includes(CliArgs, T_h)) =>
            ExitStatus # 0 /\ log = <<>>

\* A create command has run to its end with exit status 0
C7_Witness ==
  pc = "done" /\ ExitStatus = 0 /\ call.op = "createWebhook" /\ call.st = "returned"

\* The required settings that are unset or empty once fromEnv has run
MissingSettings ==
  {k \in {K_AUTH_ENDPOINT, K_CLIENT_ID, K_CLIENT_SECRET, K_APPLICATION_ID} :
     k \notin DOMAIN environ \/ environ[k] = <<>>}

FromEnvHasRun == Truthy(parsed.command) /\ pc \notin {"start", "fromEnv"}

\* C8 as stated: with a required setting unset or empty, main reports an
\* error that names a missing key, exits with a status other than 0 and sends
\* no HTTP request.
C8_Original ==
  (FromEnvHasRun /\ MissingSettings # {}) =>
    /\ pc = "done"
    /\ ExitStatus # 0
    /\ log = <<>>
    /\ Len(stderr) = 1
    /\ \E k \in MissingSettings : Contains(stderr[1], k)

\* The env file main loads
EnvFileUsed == IF Truthy(parsed.envFile) THEN parsed.envFile.v ELSE DefaultEnvFile

FirstMissing ==
  RequiredKeys[CHOOSE i \in 1..Len(RequiredKeys) :
                 /\ RequiredKeys[i] \in MissingSettings
                 /\ \A j \in 1..(i - 1) : RequiredKeys[j] \notin MissingSettings]

\* C8 as amended: with a required setting unset or empty, no client is
\* constructed, main exits with a status other than 0 and sends no HTTP
\* request; the error it reports names the first missing key (in the order
\* CX_AUTH_ENDPOINT, CX_CLIENT_ID, CX_CLIENT_SECRET, CX_APPLICATION_ID) when
\* the env file could be read, and is the failure to load the env file,
\* naming no key, when it could not.
C8_ConfigurationError ==
  (FromEnvHasRun /\ MissingSettings # {}) =>
    /\ pc = "done"
    /\ client = NoClient
    /\ ExitStatus # 0
    /\ log = <<>>
    /\ Len(stderr) = 1
    /\ IF EnvFileUsed \in DOMAIN fs
       THEN stderr[1] = <<"Missing required environment variable: ">> \o FirstMissing
       ELSE /\ SubSeq(stderr[1], 1, 1 + Len(EnvFileUsed))
                 = <<"Failed to load env file at ">> \o EnvFileUsed
            /\ \A k \in MissingSettings : ~Contains(stderr[1], k)

\* A setting that is set but empty has stopped main, the env file being
\* readable
C8_Witness ==
  /\ FromEnvHasRun
  /\ EnvFileUsed \in DOMAIN fs
  /\ \E k \in MissingSettings : k \in DOMAIN environ
  /\ pc = "done"

ListReturned == call.op = "listWebhooks" /\ call.st = "returned"

\* C9: listWebhooks, answered with 2xx, returns the normalized elements of a
\* bare array in their order, the normalized elements of the array under
\* items of an object in their order, one normalized entry for any other
\* object, and nothing for null.
C9_ListShapes ==
  ListReturned =>
    LET data == call.apiRes.json.value
        out == call.result.value
        wrapped == /\ data.t = "obj"
                   /\ "items" \in DOMAIN data.v
                   /\ data.v["items"].t = "arr"
        same(xs) == /\ Len(out.v) = Len(xs)
                    /\ \A i \in 1..Len(xs) : out.v[i] = normalizeWebhook(xs[i])
    IN /\ out.t = "arr"
       /\ data.t = "arr" => same(data.v)
       /\ wrapped => same(data.v["items"].v)
       /\ (data.t = "obj" /\ ~wrapped) => out.v = <<normalizeWebhook(data)>>
       /\ data.t = "null" => out.v = <<>>

\* A list has returned the two elements under items
C9_Witness ==
  /\ ListReturned
  /\ call.apiRes.json.value.t = "obj"
  /\ "items" \in DOMAIN call.apiRes.json.value.v
  /\ call.apiRes.json.value.v["items"].t = "arr"
  /\ Len(call.apiRes.json.value.v["items"].v) = 2
  /\ Len(call.result.value.v) = 2

\* C10: listWebhooks, answered with 2xx and a scalar body (null, a number, a
\* string, true or false), returns the empty sequence.
C10_ScalarsYieldEmpty ==
  (ListReturned /\ call.apiRes.json.value.t \in {"null", "num", "str", "bool"}) =>
    call.result.value = Arr(<<>>)

\* normalizeWebhook has returned for a JSON object
Normalized ==
  unit.fn = "normalizeWebhook" /\ unit.done /\ unit.args[1].t = "obj"

IdPriority == <<"id", "_id", "webhookId", "uuid">>

\* The server populated field k of the object
Populated(data, k) == k \in DOMAIN data.v /\ data.v[k].t # "null"

\* C11: the id of the normalized webhook is the value of the first field
\* among id, _id, webhookId, uuid that the object holds, and is undefined
\* when the object holds none of the four.
C11_ResolvedId ==
  Normalized =>
    LET data == unit.args[1]
        out == unit.ret
        held == {i \in 1..Len(IdPriority) : Populated(data, IdPriority[i])}
        first == CHOOSE i \in held : \A j \in held : i <= j
    IN /\ out.t = "obj"
       /\ "id" \in DOMAIN out.v
       /\ out.v["id"] = IF held = {} THEN Undefined ELSE data.v[IdPriority[first]]

Parsed == unit.fn = "parseArgs" /\ unit.done

\* The argument list after the program name and the entry-point token
Args == SubSeq(unit.args[1], 3, Len(unit.args[1]))

HelpFree == \A i \in 1..Len(Args) : Args[i] # T_help /\ Args[i] # T_h

NoCommand ==
  [envFile |-> Undefined, command |-> Undefined, params |-> <<>>, flags |-> EmptyMap]

\* C13: for an argument list that is empty or holds --help or -h at any
\* position, also as the value of another flag, parseArgs returns no command
\* name, no env-path override, no positional parameters and no flags.
C13_HelpOrEmpty ==
  (Parsed /\ (Args = <<>> \/ ~HelpFree)) => unit.ret = NoCommand

\* --help has been parsed as the value of --url, a word following it
C13_Witness ==
  Parsed /\ Args = <<T_url, T_help, <<"a">>>> /\ unit.ret = NoCommand

\* The position of the first token after the leading pairs of --env and a
\* value: the command, when there is a token at it
CmdPos(args) ==
  CHOOSE i \in 1..(Len(args) + 1) :
    /\ i % 2 = 1
    /\ \A j \in 1..(i - 1) : j % 2 = 1 => (args[j] = T_env /\ j + 1 <= Len(args))
    /\ ~(i <= Len(args) /\ args[i] = T_env /\ i + 1 <= Len(args))

\* The options of the remaining-token phase that take a value
ValueOptions == {T_url, T_event, T_e, T_header, T_H}

\* The tokens the option or word at position i takes up: --env and the token
\* after it, a value option and its value, or one token
Width(args, i) ==
  IF args[i] = T_env THEN 2
  ELSE IF args[i] \in ValueOptions /\ i + 1 <= Len(args) THEN 2
  ELSE 1

\* The positions after the command at which an option or a word starts, the
\* tokens in between being the values of the options before them
Starts(args) ==
  LET first == CmdPos(args) + 1
      starts[i \in first..Len(args)] ==
        \/ i = first
        \/ i - 1 >= first /\ starts[i - 1] /\ Width(args, i - 1) = 1
        \/ i - 2 >= first /\ starts[i - 2] /\ Width(args, i - 2) = 2
  IN {i \in first..Len(args) : starts[i]}

\* The tokens of args at the positions in S, in their order
RECURSIVE Pick(_, _, _)
Pick(args, S, i) ==
  IF i > Len(args) THEN <<>>
  ELSE (IF i \in S THEN <<args[i]>> ELSE <<>>) \o Pick(args, S, i + 1)

\* The positions of the values given to the options in names
ValuesOf(args, names) ==
  {i + 1 : i \in {j \in Starts(args) : args[j] \in names /\ j + 1 <= Len(args)}}

\* The values flag k holds
Held(flags, k) == IF k \in DOMAIN flags /\ flags[k].t = "arr" THEN flags[k].v ELSE <<>>

HasCommand == Parsed /\ HelpFree /\ CmdPos(Args) <= Len(Args)

\* C14: with a command, the flag event holds exactly the values given to the
\* --event and -e options after the command, in their order and with
\* duplicates, and the flag header those given to --header and -H; no value
\* is lost, whatever comes between or after.
C14_RepeatableFlags ==
  HasCommand =>
    /\ Held(unit.ret.flags, <<"event">>) = Pick(Args, ValuesOf(Args, {T_event, T_e}), 1)
    /\ Held(unit.ret.flags, <<"header">>) = Pick(Args, ValuesOf(Args, {T_header, T_H}), 1)

\* C15: an --env option after the command is consumed with the token after
\* it and discarded: the env-path override is the one captured before the
\* command, no flag env is recorded, and the result is the result for the
\* argument list without --env and that token.
C15_EnvAfterCommand ==
  HasCommand =>
    \A i \in Starts(Args) :
      Args[i] = T_env =>
        /\ unit.ret.envFile = IF CmdPos(Args) = 1 THEN Undefined
                              ELSE Str(Args[CmdPos(Args) - 1])
        /\ <<"env">> \notin DOMAIN unit.ret.flags
        /\ unit.ret = parseArgs(Argv(SubSeq(Args, 1, i - 1)
                                     \o SubSeq(Args, i + 2, Len(Args))))

\* After --env a and the command b, --env has been consumed with the
\* dash-prefixed token after it, leaving no parameter and no flag
C15_Witness ==
  /\ Parsed
  /\ Args = <<T_env, <<"a">>, <<"b">>, T_env, T_v>>
  /\ unit.ret.envFile = Str(<<"a">>)
  /\ unit.ret.command = Str(<<"b">>)
  /\ unit.ret.params = <<>>
  /\ unit.ret.flags = EmptyMap

\* C16: every token after the command is used once: the positional
\* parameters are the words at the positions where an option or a word
\* starts, in their order, and the flags recorded are the options at those
\* positions; the value of --env, --url, --event, -e, --header or -H is
\* neither, also when it starts with a dash.
C16_TokensUsedOnce ==
  HasCommand =>
    LET st == Starts(Args)
        dashed(i) == Len(Args[i]) > 0 /\ Args[i][1] = "-"
        words == {i \in st : ~dashed(i)}
        bools == {i \in st : dashed(i) /\ Width(Args, i) = 1}
        given(names, k) == IF ValuesOf(Args, names) = {} THEN {} ELSE {k}
    IN /\ unit.ret.params = Pick(Args, words, 1)
       /\ {k \in DOMAIN unit.ret.flags : unit.ret.flags[k].t = "bool"}
            = {StripDashes(Args[i]) : i \in bools}
       /\ DOMAIN unit.ret.flags
            = {StripDashes(Args[i]) : i \in bools}
              \cup given({T_url}, <<"url">>)
              \cup given({T_event, T_e}, <<"event">>)
              \cup given({T_header, T_H}, <<"header">>)

\* -e has taken --env as its value, which has consumed nothing, and the two
\* words after it are the parameters, in their order
C16_Witness ==
  /\ Parsed
  /\ Args = << <<"a">>, T_e, T_env, <<"b">>, <<"a">> >>
  /\ unit.ret.params = << <<"b">>, <<"a">> >>
  /\ DOMAIN unit.ret.flags = {<<"event">>}
  /\ unit.ret.flags[<<"event">>] = Arr(<<T_env>>)

\* parseHeaders has returned or thrown
HeadersParsed == unit.fn = "parseHeaders" /\ unit.done

\* The tokens handed to parseHeaders: none when the input is absent, empty
\* or a boolean
HeaderTokensOf(values) ==
  CASE values.t = "arr" -> values.v
    [] values.t = "str" /\ values.v # <<>> -> <<values.v>>
    [] OTHER -> <<>>

\* C17: parseHeaders returns one header for each token, in the order of the
\* tokens, its name and value being the trimmed parts before and after the
\* first "=" of the token; with a token that has no "=" or whose trimmed name
\* is empty it throws a validation error naming that token and returns no
\* header; for an absent, empty or boolean input it returns undefined, and it
\* never returns an empty sequence.
C17_HeaderParsing ==
  HeadersParsed =>
    LET toks == HeaderTokensOf(unit.args[1])
        hasEq(v) == \E i \in 1..Len(v) : v[i] = "="
        eq(v) == CHOOSE i \in 1..Len(v) : v[i] = "=" /\ \A j \in 1..(i - 1) : v[j] # "="
        name(v) == Trim(SubSeq(v, 1, eq(v) - 1))
        value(v) == Trim(SubSeq(v, eq(v) + 1, Len(v)))
        bad == {i \in DOMAIN toks : ~hasEq(toks[i]) \/ name(toks[i]) = <<>>}
        firstBad == toks[CHOOSE i \in bad : \A j \in bad : i <= j]
    IN /\ unit.ret.ok => unit.ret.value # Arr(<<>>)
       /\ IF bad # {}
          THEN /\ ~unit.ret.ok
               /\ Head(unit.ret.error) = "Invalid --header value: "
               /\ SubSeq(unit.ret.error, 2, 1 + Len(firstBad)) = firstBad
          ELSE IF toks = <<>> THEN unit.ret = Return(Undefined)
          ELSE /\ unit.ret.ok
               /\ unit.ret.value.t = "arr"
               /\ Len(unit.ret.value.v) = Len(toks)
               /\ \A i \in DOMAIN toks :
                    unit.ret.value.v[i] = Obj([name |-> Str(name(toks[i])),
                                               value |-> Str(value(toks[i]))])

\* Two tokens have been parsed, one with blanks around its name and value
\* and one with a second "="
C17_Witness ==
  /\ HeadersParsed
  /\ unit.args[1] = Arr(<< <<" ", "k", " ", "=", " ", "v", " ">>,
                          <<"a", "=", "b", "=", "c">> >>)
  /\ unit.ret = Return(Arr(<<Obj([name |-> Str(<<"k">>), value |-> Str(<<"v">>)]),
                            Obj([name |-> Str(<<"a">>),
                                 value |-> Str(<<"b", "=", "c">>)])>>))

\* loadEnvFile has returned for a file it could read
EnvFileLoaded ==
  unit.fn = "loadEnvFile" /\ unit.done /\ unit.args[1] \in DOMAIN unit.args[3]

\* C18: loading an env file leaves every variable already in the environment
\* at its prior value, also an empty one; a key that is not in the
\* environment gets the value of the first line of the file that sets it;
\* blank lines, comment lines and lines without "=" set nothing.
C18_ExistingValueWins ==
  EnvFileLoaded =>
    LET before == unit.args[2]
        lines == SplitLines(unit.args[3][unit.args[1]], 1, <<>>)
        line(i) == Trim(lines[i])
        eq(i) == CHOOSE n \in 1..Len(line(i)) :
                   line(i)[n] = "=" /\ \A m \in 1..(n - 1) : line(i)[m] # "="
        sets == {i \in DOMAIN lines :
                   /\ line(i) # <<>>
                   /\ line(i)[1] # "#"
                   /\ \E n \in 1..Len(line(i)) : line(i)[n] = "="}
        key(i) == Trim(SubSeq(line(i), 1, eq(i) - 1))
        value(i) == Unquote(Trim(SubSeq(line(i), eq(i) + 1, Len(line(i)))))
        firstOf(k) == CHOOSE i \in sets : key(i) = k /\ \A j \in sets : key(j) = k => i <= j
    IN /\ unit.ret.ok
       /\ DOMAIN unit.ret.value = DOMAIN before \cup {key(i) : i \in sets}
       /\ \A k \in DOMAIN before : unit.ret.value[k] = before[k]
       /\ \A k \in DOMAIN unit.ret.value \ DOMAIN before :
            unit.ret.value[k] = value(firstOf(k))

\* A file that sets CX_CLIENT_ID and, quoted, CX_APPLICATION_ID has been
\* loaded into an environment whose CX_CLIENT_ID and CX_SCOPES are empty
\* strings: the first has kept its value, the second has been added
C18_Witness ==
  /\ EnvFileLoaded
  /\ unit.args[2] = [k \in {K_CLIENT_ID, K_SCOPES} |-> <<>>]
  /\ Contains(unit.args[3][unit.args[1]], <<"CX_CLIENT_ID", "=", "from-file">>)
  /\ Contains(unit.args[3][unit.args[1]], <<"CX_APPLICATION_ID">>)
  /\ unit.ret.ok
  /\ unit.ret.value[K_CLIENT_ID] = <<>>
  /\ unit.ret.value[K_APPLICATION_ID] = <<"app-9">>

\* C19 as stated: for a non-empty argument list without --help and -h, the
\* env-path override is set exactly when the first token is --env and a token
\* follows it, and is that token; the command name is the next token after
\* these two, or the first token when nothing was consumed, whatever it is,
\* and is unset only when no token is left.
C19_Original ==
  (Parsed /\ Args # <<>> /\ HelpFree) =>
    LET pair == Args[1] = T_env /\ Len(Args) >= 2
        next == IF pair THEN 3 ELSE 1
    IN /\ unit.ret.envFile = IF pair THEN Str(Args[2]) ELSE Undefined
       /\ unit.ret.command = IF next <= Len(Args) THEN Str(Args[next]) ELSE Undefined

\* C19 as amended: every leading pair of --env and a following token is
\* consumed, and the env-path override is the value of the last of these
\* pairs, unset when there is none; the first token that is not --env with a
\* token after it stops the global phase without being consumed and is the
\* command name, whatever it is (a dash-prefixed token, a lone trailing
\* --env); the command name is unset only when no token is left.
C19_GlobalPhase ==
  (Parsed /\ Args # <<>> /\ HelpFree) =>
    LET c == CmdPos(Args)
    IN /\ unit.ret.envFile = IF c = 1 THEN Undefined ELSE Str(Args[c - 1])
       /\ unit.ret.command = IF c <= Len(Args) THEN Str(Args[c]) ELSE Undefined

\* Two leading --env pairs have been consumed, the second one giving the
\* env-path override, and a dash-prefixed token is the command
C19_Witness ==
  /\ Parsed
  /\ Args = <<T_env, <<"a">>, T_env, <<"b">>, T_v>>
  /\ unit.ret.envFile = Str(<<"b">>)
  /\ unit.ret.command = Str(T_v)

\* C20: in the result of parseArgs the flag url, when present, is a string,
\* the value of the last --url; the flags event and header, when present,
\* are non-empty sequences of strings; none of the three is true.
C20_FlagTypes ==
  Parsed =>
    LET flags == unit.ret.flags
        urls == ValuesOf(Args, {T_url})
        strings(k) == /\ flags[k].t = "arr"
                      /\ flags[k].v # <<>>
                      /\ \A i \in DOMAIN flags[k].v : flags[k].v[i] \in Seq(STRING)
    IN /\ <<"url">> \in DOMAIN flags =>
            /\ flags[<<"url">>].t = "str"
            /\ urls # {}
            /\ flags[<<"url">>].v = Args[CHOOSE i \in urls : \A j \in urls : j <= i]
       /\ <<"event">> \in DOMAIN flags => strings(<<"event">>)
       /\ <<"header">> \in DOMAIN flags => strings(<<"header">>)

\* A step of the invocation has failed: an error or the usage has set the
\* exit code, or the operation has thrown
FailureSeen == ExitStatus # 0 \/ call.st = "threw"

\* C21: every request being answered or failing in the end, an invocation
\* of the command line ends, with no request outstanding and its exit status
\* 0 or 1; once a step has failed (configuration, validation, token
\* exchange, call of the API), no further HTTP request is sent.
C21_RunsToCompletion ==
  /\ <>(pc = "done")
  /\ [](pc = "done" => (inflight = {} /\ ExitStatus \in {0, 1}))
  /\ [][FailureSeen => log' = log]_vars
  /\ [][pc = "done" => pc' = "done"]_vars

\* An invocation has ended after the call of the API failed: the token
\* request and the one request to the API are all it sent
C21_Witness ==
  /\ pc = "done"
  /\ call.st = "threw"
  /\ call.apiRes.net # "none"
  /\ Len(log) = 2
  /\ ExitStatus = 1
====
